---- MODULE Spec2Model ----
(***************************************************************************)
(* State-machine model of the STM32F0 XPD DMA channel driver               *)
(* (STM32F0_XPD/src/xpd_dma.c).                                            *)
(*                                                                         *)
(* Registers are modelled as plain register mirrors: a write takes effect  *)
(* at once and reads back as written.  The hardware (the environment)      *)
(* only counts CNDTR down and raises the HT/TC/TE flags of the channel.    *)
(* Handles are statically allocated (zero-initialised) objects, one per    *)
(* channel instance.                                                       *)
(***************************************************************************)
EXTENDS Integers, Sequences, FiniteSets, TLC

(* ------------------------------ bounds --------------------------------- *)
\* channels modelled per controller (the silicon has up to 7)
NumChannels == 2
\* largest transfer length written to CNDTR
MaxLen == 2
\* largest peripheral address handed to Start (0 is the value Init latches)
MaxAddr == 1
\* largest memory buffer address handed to Start
MaxBuf == 1
\* granularity at which the tick source is observed by a busy-wait
TickStep == 500

(* ------------------------- program constants --------------------------- *)
DMA_ABORT_TIMEOUT == 1000
\* controller base addresses (device header)
DMA1 == 1073872896
DMA2 == 1073873920
\* sentinel "wait forever" timeout, 0xFFFFFFFF as a uint32_t (see U32 below)
XPD_NO_TIMEOUT == <<65535, 65535>>

XPD_OK == "OK"
XPD_ERROR == "ERROR"
XPD_BUSY == "BUSY"
XPD_TIMEOUT == "TIMEOUT"

DMA_ERROR_NONE == 0
DMA_ERROR_TRANSFER == 1

DMA_OPERATION_TRANSFER == "TRANSFER"
DMA_OPERATION_HALFTRANSFER == "HALF"

(* ------------------------------ helpers -------------------------------- *)
\* uint32_t values that must wrap (ticks, timeouts) are pairs <<hi, lo>> of
\* 16-bit halves, with arithmetic modulo 2^32
Half == 2 ^ 16
U32(n) == <<n \div Half, n % Half>>
Sub32_NoBorrow(a, b) ==
    <<(a[1] - b[1] + Half) % Half, (a[2] - b[2] + Half) % Half>>

Sub32(a, b) ==
    LET lo == a[2] - b[2]
        hi == a[1] - b[1] - (IF lo < 0 THEN 1 ELSE 0)
    IN <<(hi + Half) % Half, (lo + Half) % Half>>
Add32(a, b) ==
    LET lo == a[2] + b[2]
        hi == a[1] + b[1] + (lo \div Half)
    IN <<hi % Half, lo % Half>>
Gt32(a, b) == a[1] > b[1] \/ (a[1] = b[1] /\ a[2] > b[2])

Pow2(n) == 2 ^ n
Bit(x, n) == (x \div Pow2(n)) % 2
\* SET_BIT / CLEAR_BIT with a single-bit mask (1 << n)
SET_BIT(x, n) == IF Bit(x, n) = 1 THEN x ELSE x + Pow2(n)
CLEAR_BIT(x, n) == IF Bit(x, n) = 1 THEN x - Pow2(n) ELSE x
\* bitwise OR of two error masks (ErrorType has the single bit TRANSFER)
ErrOr(a, b) == IF a = DMA_ERROR_TRANSFER \/ b = DMA_ERROR_TRANSFER
               THEN DMA_ERROR_TRANSFER ELSE DMA_ERROR_NONE

(* -------------------------- channel addressing ------------------------- *)
Bases == <<DMA1, DMA2>>
\* register block of channel n (1-based) of controller k (1-based)
ChannelAddr(k, n) == Bases[k] + 8 + 20 * (n - 1)
Channels == { ChannelAddr(k, n) : k \in 1..2, n \in 1..NumChannels }

DMA_BASE(inst) == inst - (inst % 256)
DMA_BASE_OFFSET(inst) == IF inst < DMA2 THEN 0 ELSE 1
DMA_CHANNEL_NUMBER(inst) == ((inst % 256) - 8) \div 20

\* bit positions of the channel-1 flags in ISR / IFCR
FlagBit(f) == CASE f = "TC" -> 1 [] f = "HT" -> 2 [] f = "TE" -> 3
Flags == {"HT", "TC", "TE"}
Slots == {"HalfComplete", "Complete", "Error"}

(* ------------------------------- state --------------------------------- *)
VARIABLES
    ccr,        \* [Channels -> CCR record]        Inst->CCR
    cndtr,      \* [Channels -> 0..MaxLen]         Inst->CNDTR
    cpar,       \* [Channels -> 0..MaxAddr]        Inst->CPAR
    cmar,       \* [Channels -> 0..MaxBuf]         Inst->CMAR
    reload,     \* [Channels -> 0..MaxLen]         hardware reload value of CNDTR
    isr,        \* [{DMA1,DMA2} -> Nat]            Base->ISR flag word
    hdma,       \* [Channels -> handle record]     DMA_HandleType objects
    dma_users,  \* [0..1 -> 0..255]                user bitmask per controller
    clk,        \* [0..1 -> BOOLEAN]               controller clock enabled
    errorDetect,\* BOOLEAN                         USE_XPD_DMA_ERROR_DETECT
    app,        \* handles the application uses
    pc,         \* the foreground busy-wait in progress, if any
    tick,       \* XPD_GetTimer() while a busy-wait is in progress
    last        \* record of the most recent driver call

vars == <<ccr, cndtr, cpar, cmar, reload, isr, hdma, dma_users, clk,
          errorDetect, app, pc, tick, last>>

regs == <<ccr, cndtr, cpar, cmar>>

CCR_Reset == [EN |-> 0, TCIE |-> 0, HTIE |-> 0, TEIE |-> 0, DIR |-> 0,
              CIRC |-> 0, PINC |-> 0, MINC |-> 0, PSIZE |-> 0, MSIZE |-> 0,
              PL |-> 0, MEM2MEM |-> 0]

\* DMA_InitType values the application passes to Init
Configs ==
    { [Priority |-> 0, Direction |-> 0, Mode |-> 0, PInc |-> 0, PAlign |-> 0,
       MInc |-> 0, MAlign |-> 0],
      [Priority |-> 3, Direction |-> 1, Mode |-> 1, PInc |-> 1, PAlign |-> 2,
       MInc |-> 0, MAlign |-> 1] }

Handle0(cbs) == [Base |-> 0, ChannelOffset |-> 0, Errors |-> DMA_ERROR_NONE,
                 Callbacks |-> cbs]

Idle == [op |-> "idle"]

\* record of a completed driver call
\* (busy: the channel was busy at entry of Init / Start, or Stop had to
\* wait; flags, calls: the sub-handlers an interrupt dispatch ran and the
\* callbacks it invoked, in order)
Ret(op, h, code, busy, flags, calls) ==
    [op |-> op, h |-> h, code |-> code, busy |-> busy, flags |-> flags,
     calls |-> calls]
Call(op, h, code) == Ret(op, h, code, FALSE, {}, <<>>)
\* a call made from interrupt context while a foreground busy-wait is
\* pending leaves the record of the pending call in place
Record(r) == IF pc = Idle THEN r ELSE last

(* --------------------------- register access --------------------------- *)
\* XPD_DMA_GetFlag: the handle's cached Base / ChannelOffset locate the flag
GetFlag(h, f) ==
    Bit(isr[hdma[h].Base], FlagBit(f) + hdma[h].ChannelOffset) = 1

\* XPD_DMA_ClearFlag on flag word w: write-one-to-clear through IFCR.  A
\* handle whose Base was never computed points at no controller: the write
\* reaches no DMA register.
ClearFlag(w, h, f) ==
    IF hdma[h].Base \in DOMAIN w
    THEN [w EXCEPT ![hdma[h].Base] =
              CLEAR_BIT(@, FlagBit(f) + hdma[h].ChannelOffset)]
    ELSE w

\* the handle has been through dma_calcBase
Ready(h) == hdma[h].Base \in DOMAIN isr

\* hardware raises flag f of channel c
RaiseFlag(w, c, f) ==
    [w EXCEPT ![DMA_BASE(c)] = SET_BIT(@, FlagBit(f) + 4 * DMA_CHANNEL_NUMBER(c))]

(* ------------------------------ GetStatus ------------------------------ *)
GetStatus_LenOnly(h) == IF cndtr[h] > 0 THEN XPD_BUSY ELSE XPD_OK

GetStatus_EnOnly(h) == IF ccr[h].EN # 0 THEN XPD_BUSY ELSE XPD_OK

GetStatus(h) ==
    IF ccr[h].EN # 0 /\ cndtr[h] > 0 THEN XPD_BUSY ELSE XPD_OK

XPD_DMA_GetStatus(h) ==
    /\ pc = Idle
    /\ last' = Call("GetStatus", h, GetStatus(h))
    /\ UNCHANGED <<ccr, cndtr, cpar, cmar, reload, isr, hdma, dma_users, clk,
                   errorDetect, app, pc, tick>>

XPD_DMA_GetError(h) ==
    /\ pc = Idle
    /\ last' = Call("GetError", h, hdma[h].Errors)
    /\ UNCHANGED <<ccr, cndtr, cpar, cmar, reload, isr, hdma, dma_users, clk,
                   errorDetect, app, pc, tick>>

(* --------------------------- Init and Deinit --------------------------- *)
\* dma_calcBase
dma_calcBase_NoOffset(hd, inst) == [hd EXCEPT !.Base = DMA_BASE(inst)]

dma_calcBase(hd, inst) ==
    [hd EXCEPT !.Base = DMA_BASE(inst),
               !.ChannelOffset = DMA_CHANNEL_NUMBER(inst) * 4]

\* user bitmask of the controller after Init / Deinit of channel h (uint8_t)
UsersAfterInit(users, h) == SET_BIT(users, DMA_CHANNEL_NUMBER(h)) % 256
UsersAfterDeinit_Zero(users, h) == 0

UsersAfterDeinit(users, h) == CLEAR_BIT(users, DMA_CHANNEL_NUMBER(h)) % 256

\* clock of the controller after Deinit left `users` in the bitmask
ClockAfterDeinit_Always(on, users) == FALSE

ClockAfterDeinit(on, users) == IF users = 0 THEN FALSE ELSE on

\* CNDTR as Init writes it
InitLength_Keep(h) == cndtr[h]

InitLength(h) == 0

XPD_DMA_Init(h, cfg) ==
    LET bo == DMA_BASE_OFFSET(h) IN
    /\ pc = Idle
    /\ dma_users' = [dma_users EXCEPT ![bo] = UsersAfterInit(@, h)]
    /\ clk' = [clk EXCEPT ![bo] = TRUE]
    /\ ccr' = [ccr EXCEPT ![h] =
                 [@ EXCEPT !.PL = cfg.Priority,
                           !.DIR = cfg.Direction % 2,
                           !.CIRC = cfg.Mode,
                           !.MEM2MEM = (cfg.Direction \div 2) % 2,
                           !.PINC = cfg.PInc,
                           !.PSIZE = cfg.PAlign,
                           !.MINC = cfg.MInc,
                           !.MSIZE = cfg.MAlign]]
    /\ cndtr' = [cndtr EXCEPT ![h] = InitLength(h)]
    /\ reload' = [reload EXCEPT ![h] = InitLength(h)]
    /\ cpar' = [cpar EXCEPT ![h] = 0]
    /\ hdma' = [hdma EXCEPT ![h] = dma_calcBase(@, h)]
    /\ last' = Ret("Init", h, XPD_OK, GetStatus(h) = XPD_BUSY, {}, <<>>)
    /\ UNCHANGED <<cmar, isr, errorDetect, app, pc, tick>>

XPD_DMA_Deinit(h) ==
    LET bo == DMA_BASE_OFFSET(h)
        users == UsersAfterDeinit(dma_users[bo], h)
    IN
    /\ pc = Idle
    /\ ccr' = [ccr EXCEPT ![h] = CCR_Reset]
    /\ cndtr' = [cndtr EXCEPT ![h] = 0]
    /\ reload' = [reload EXCEPT ![h] = 0]
    /\ cpar' = [cpar EXCEPT ![h] = 0]
    /\ cmar' = [cmar EXCEPT ![h] = 0]
    /\ isr' = ClearFlag(ClearFlag(ClearFlag(isr, h, "HT"), h, "TC"), h, "TE")
    /\ dma_users' = [dma_users EXCEPT ![bo] = users]
    /\ clk' = [clk EXCEPT ![bo] = ClockAfterDeinit(@, users)]
    /\ last' = Call("Deinit", h, XPD_OK)
    /\ UNCHANGED <<hdma, errorDetect, app, pc, tick>>

(* -------------------------- Enable and Disable ------------------------- *)
XPD_DMA_Enable(h) ==
    /\ ccr' = [ccr EXCEPT ![h].EN = 1]
    /\ last' = Record(Call("Enable", h, XPD_OK))
    /\ UNCHANGED <<cndtr, cpar, cmar, reload, isr, hdma, dma_users, clk,
                   errorDetect, app, pc, tick>>

XPD_DMA_Disable(h) ==
    /\ ccr' = [ccr EXCEPT ![h].EN = 0]
    /\ last' = Record(Call("Disable", h, XPD_OK))
    /\ UNCHANGED <<cndtr, cpar, cmar, reload, isr, hdma, dma_users, clk,
                   errorDetect, app, pc, tick>>

(* -------------------------------- Start -------------------------------- *)
\* the busy check of Start: made only when the peripheral address differs
\* from the one latched in CPAR
StartResult_NoCheck(h, pa) == XPD_OK

StartResult_AlwaysCheck(h, pa) == GetStatus(h)

StartResult(h, pa) == IF pa # cpar[h] THEN GetStatus(h) ELSE XPD_OK

\* the handle's error state after Start computed `result`
StartErrors_Always(h, result) == DMA_ERROR_NONE

StartErrors(h, result) ==
    IF result = XPD_OK THEN DMA_ERROR_NONE ELSE hdma[h].Errors

\* interrupt-enable bits Start_IT sets / Stop_IT clears
ITBits_NoError == {"TCIE", "HTIE"}

ITBits == IF errorDetect THEN {"TCIE", "HTIE", "TEIE"} ELSE {"TCIE", "HTIE"}

\* SET_BIT / CLEAR_BIT of the fields `bits` of a CCR value
WithBits_Set(r, bits, v) == [f \in DOMAIN r |-> IF f \in bits THEN 1 ELSE r[f]]

WithBits(r, bits, v) ==
    [f \in DOMAIN r |-> IF f \in bits THEN v ELSE r[f]]

\* CCR after the Disable ... Enable bracket of Start's arming sequence
StartEnable(r) == [r EXCEPT !.EN = 1]

\* the register and handle effect of Start (its critical section as one
\* step), followed by setting the interrupt-enable bits `ie` when armed
StartEffect(h, pa, len, buf, result, ie) ==
    /\ IF result = XPD_OK
       THEN /\ ccr' = [ccr EXCEPT ![h] = WithBits(StartEnable(@), ie, 1)]
            /\ cpar' = [cpar EXCEPT ![h] = pa]
            /\ cndtr' = [cndtr EXCEPT ![h] = len]
            /\ reload' = [reload EXCEPT ![h] = len]
            /\ cmar' = [cmar EXCEPT ![h] = buf]
       ELSE UNCHANGED <<ccr, cpar, cndtr, reload, cmar>>
    /\ hdma' = [hdma EXCEPT ![h].Errors = StartErrors(h, result)]

XPD_DMA_Start(h, pa, len, buf) ==
    LET result == StartResult(h, pa) IN
    /\ pc = Idle
    /\ StartEffect(h, pa, len, buf, result, {})
    /\ last' = Ret("Start", h, result, GetStatus(h) = XPD_BUSY, {}, <<>>)
    /\ UNCHANGED <<isr, dma_users, clk, errorDetect, app, pc, tick>>

XPD_DMA_Start_IT(h, pa, len, buf) ==
    LET result == StartResult(h, pa) IN
    /\ pc = Idle
    /\ StartEffect(h, pa, len, buf, result, ITBits)
    /\ last' = Ret("Start_IT", h, result, GetStatus(h) = XPD_BUSY, {}, <<>>)
    /\ UNCHANGED <<isr, dma_users, clk, errorDetect, app, pc, tick>>

(* ----------------------------- Stop, Stop_IT --------------------------- *)
XPD_DMA_Stop_IT(h) ==
    /\ pc = Idle
    /\ ccr' = [ccr EXCEPT ![h] = WithBits([@ EXCEPT !.EN = 0], ITBits, 0)]
    /\ last' = Call("Stop_IT", h, XPD_OK)
    /\ UNCHANGED <<cndtr, cpar, cmar, reload, isr, hdma, dma_users, clk,
                   errorDetect, app, pc, tick>>

\* ticks elapsed since the busy-wait in progress read its start tick
\* (32-bit modular subtraction)
Elapsed == Sub32(tick, pc.tickstart)

\* the value of the tick source when a busy-wait starts: just below the
\* 32-bit wrap, so that the wait's first tick wraps the counter
StartTicks == {Sub32(U32(0), U32(TickStep))}

\* Stop: disable the stream, then enter XPD_WaitForMatch on CCR.EN with a
\* budget of DMA_ABORT_TIMEOUT
StopDisable_Skip(r) == r

StopDisable(r) == [r EXCEPT !.EN = 0]

XPD_DMA_Stop(h) ==
    /\ pc = Idle
    /\ ccr' = [ccr EXCEPT ![h] = StopDisable(@)]
    /\ \E t \in StartTicks :
         /\ tick' = t
         /\ pc' = [op |-> "stop", h |-> h, timeout |-> U32(DMA_ABORT_TIMEOUT),
                   tickstart |-> t, waited |-> 0, polls |-> 0]
    /\ last' = Call("Stop", h, "pending")
    /\ UNCHANGED <<cndtr, cpar, cmar, reload, isr, hdma, dma_users, clk,
                   errorDetect, app>>

\* XPD_WaitForMatch(reg, mask, match, budget): one poll of the register.
\* It returns OK when the masked register matches, TIMEOUT when it does not
\* and the budget is exceeded, and polls again otherwise.
XPD_WaitForMatch(en, match, elapsed, budget) ==
    IF en = match THEN XPD_OK
    ELSE IF Gt32(elapsed, budget) THEN XPD_TIMEOUT
    ELSE "again"

\* one poll of Stop's wait; a poll that neither matches nor times out
\* only counts that the register was polled
StopPoll(h) ==
    /\ pc.op = "stop" /\ pc.h = h
    /\ LET r == XPD_WaitForMatch(ccr[h].EN, 0, Elapsed, pc.timeout) IN
       IF r = "again"
       THEN /\ pc.polls = 0
            /\ pc' = [pc EXCEPT !.polls = 1]
            /\ UNCHANGED <<tick, last>>
       ELSE /\ pc' = Idle
            /\ tick' = U32(0)
            /\ last' = Ret("Stop", h, r, pc.polls > 0, {}, <<>>)
    /\ UNCHANGED <<ccr, cndtr, cpar, cmar, reload, isr, hdma, dma_users, clk,
                   errorDetect, app>>

(* ------------------------------ PollStatus ----------------------------- *)
PollTimeouts == {U32(0), XPD_NO_TIMEOUT}
Operations == {DMA_OPERATION_TRANSFER, DMA_OPERATION_HALFTRANSFER}

\* the flag PollStatus waits for
Awaited_AlwaysTC(operation) == "TC"

Awaited(operation) ==
    IF operation = DMA_OPERATION_TRANSFER THEN "TC" ELSE "HT"

\* entry of PollStatus when the tick source reads t: read the start tick,
\* enter the polling loop
PollEntry(h, operation, timeout, t) ==
    /\ pc = Idle
    /\ Ready(h)
    /\ tick' = t
    /\ pc' = [op |-> "poll", h |-> h, timeout |-> timeout,
              tickstart |-> t, waited |-> 0, operation |-> operation]
    /\ last' = Call("PollStatus", h, "pending")
    /\ UNCHANGED <<ccr, cndtr, cpar, cmar, reload, isr, hdma, dma_users, clk,
                   errorDetect, app>>

XPD_DMA_PollStatus(h, operation, timeout) ==
    \E t \in StartTicks : PollEntry(h, operation, timeout, t)

\* the bound of the wait in progress has been exceeded
TimedOut_AtOnce == pc.timeout # XPD_NO_TIMEOUT

TimedOut == pc.timeout # XPD_NO_TIMEOUT /\ Gt32(Elapsed, pc.timeout)

\* what a return of PollStatus leaves on record: its result, whether the
\* bound had been exceeded, and the flag it was waiting for
PollRet(h, code) ==
    Ret("PollStatus", h, code, TimedOut, {Awaited(pc.operation)}, <<>>)

\* the error mask after a sub-handler observed the transfer-error flag
RecordError_Drop(errors) == errors

RecordError(errors) == ErrOr(errors, DMA_ERROR_TRANSFER)

\* one iteration of the polling loop that leaves it; an iteration that
\* finds neither flag nor timeout changes nothing
PollOutcome_TimeoutFirst(h) ==
    IF GetFlag(h, Awaited(pc.operation)) THEN XPD_OK
    ELSE IF TimedOut THEN XPD_TIMEOUT
    ELSE IF GetFlag(h, "TE") THEN XPD_ERROR
    ELSE "again"

PollOutcome(h) ==
    IF GetFlag(h, Awaited(pc.operation)) THEN XPD_OK
    ELSE IF GetFlag(h, "TE") THEN XPD_ERROR
    ELSE IF TimedOut THEN XPD_TIMEOUT
    ELSE "again"

PollIter(h) ==
    /\ pc.op = "poll" /\ pc.h = h
    /\ IF PollOutcome(h) = XPD_OK
       THEN /\ isr' = ClearFlag(IF pc.operation = DMA_OPERATION_TRANSFER
                                THEN ClearFlag(isr, h, "TC") ELSE isr,
                                h, "HT")
            /\ last' = PollRet(h, XPD_OK)
            /\ UNCHANGED hdma
       ELSE IF PollOutcome(h) = XPD_ERROR
       THEN /\ hdma' = [hdma EXCEPT ![h].Errors = RecordError(@)]
            /\ isr' = ClearFlag(isr, h, "TE")
            /\ last' = PollRet(h, XPD_ERROR)
       ELSE /\ PollOutcome(h) = XPD_TIMEOUT
            /\ last' = PollRet(h, XPD_TIMEOUT)
            /\ UNCHANGED <<isr, hdma>>
    /\ pc' = Idle
    /\ tick' = U32(0)
    /\ UNCHANGED <<ccr, cndtr, cpar, cmar, reload, dma_users, clk,
                   errorDetect, app>>

(* -------------------------- interrupt dispatch ------------------------- *)
\* the sub-handlers that run: the flags found set, TE only with error
\* detection compiled in
IrqHandled(h) ==
    { f \in Flags : GetFlag(h, f) /\ (f = "TE" => errorDetect) }

\* interrupt-enable bit after a sub-handler ran: XPD_DMA_DisableIT unless
\* the channel is in circular mode
IrqEnable_Always(circ, ie) == 0

IrqEnable(circ, ie) == IF circ = 0 THEN 0 ELSE ie

\* callback slot of each sub-handler, in the handler's order
IrqOrder_Swapped == << <<"TC", "Complete">>, <<"HT", "HalfComplete">>,
                       <<"TE", "Error">> >>

IrqOrder == << <<"HT", "HalfComplete">>, <<"TC", "Complete">>,
               <<"TE", "Error">> >>

\* XPD_SAFE_CALLBACK of the sub-handlers that ran: the registered slots
IrqCalls(h, handled) ==
    LET Step(i) == IF IrqOrder[i][1] \in handled
                      /\ IrqOrder[i][2] \in hdma[h].Callbacks
                   THEN <<IrqOrder[i][2]>> ELSE <<>>
    IN Step(1) \o Step(2) \o Step(3)

\* the handler's effect on the registers and the handle
IrqDispatch(h) ==
    LET handled == IrqHandled(h) IN
    /\ Ready(h)
    /\ isr' = LET w1 == IF "HT" \in handled THEN ClearFlag(isr, h, "HT") ELSE isr
                  w2 == IF "TC" \in handled THEN ClearFlag(w1, h, "TC") ELSE w1
              IN IF "TE" \in handled THEN ClearFlag(w2, h, "TE") ELSE w2
    /\ ccr' = [ccr EXCEPT ![h] =
                 [@ EXCEPT !.HTIE = IF "HT" \in handled
                                    THEN IrqEnable(ccr[h].CIRC, @) ELSE @,
                           !.TCIE = IF "TC" \in handled
                                    THEN IrqEnable(ccr[h].CIRC, @) ELSE @]]
    /\ hdma' = [hdma EXCEPT ![h].Errors =
                  IF "TE" \in handled THEN RecordError(@) ELSE @]
    /\ last' = Record(Ret("IRQ", h, "void", FALSE, handled,
                          IrqCalls(h, handled)))
    /\ UNCHANGED <<cndtr, cpar, cmar, reload, dma_users, clk, errorDetect,
                   app, tick>>

XPD_DMA_IRQHandler(h) == IrqDispatch(h) /\ UNCHANGED pc

(* ------------------------------ environment ---------------------------- *)
\* the channel is moving data: clocked, enabled, items remaining
Running(c) == clk[DMA_BASE_OFFSET(c)] /\ ccr[c].EN = 1 /\ cndtr[c] > 0

\* the hardware transfers one item: CNDTR counts down, HT is raised when
\* half of the programmed length is done and TC when all of it is; a
\* circular channel reloads CNDTR instead of stopping at zero
HwTransfer(c) ==
    LET n == cndtr[c] - 1
        w1 == IF 2 * n <= reload[c] /\ 2 * cndtr[c] > reload[c]
              THEN RaiseFlag(isr, c, "HT") ELSE isr
        w2 == IF n = 0 THEN RaiseFlag(w1, c, "TC") ELSE w1
    IN
    /\ Running(c)
    /\ cndtr' = [cndtr EXCEPT ![c] =
                   IF n = 0 /\ ccr[c].CIRC = 1 THEN reload[c] ELSE n]
    /\ isr' = w2
    /\ UNCHANGED <<ccr, cpar, cmar, reload, hdma, dma_users, clk,
                   errorDetect, app, pc, tick, last>>

\* the hardware reports a bus error on the running channel
HwError(c) ==
    /\ Running(c)
    /\ ~ (Bit(isr[DMA_BASE(c)], FlagBit("TE") + 4 * DMA_CHANNEL_NUMBER(c)) = 1)
    /\ isr' = RaiseFlag(isr, c, "TE")
    /\ UNCHANGED <<ccr, cndtr, cpar, cmar, reload, hdma, dma_users, clk,
                   errorDetect, app, pc, tick, last>>

\* the busy-wait in progress would go round its loop again
Blocked ==
    \/ /\ pc.op = "stop"
       /\ XPD_WaitForMatch(ccr[pc.h].EN, 0, Elapsed, pc.timeout) = "again"
    \/ /\ pc.op = "poll"
       /\ ~ GetFlag(pc.h, Awaited(pc.operation))
       /\ ~ GetFlag(pc.h, "TE")
       /\ ~ TimedOut

\* the tick source advances while a busy-wait goes round its loop (in a
\* wait without timeout it is followed for one step)
Tick ==
    /\ pc.op # "idle"
    /\ Blocked
    /\ pc.timeout = XPD_NO_TIMEOUT => Elapsed = U32(0)
    /\ tick' = Add32(tick, U32(TickStep))
    /\ pc' = [pc EXCEPT !.waited = @ + TickStep]
    /\ UNCHANGED <<ccr, cndtr, cpar, cmar, reload, isr, hdma, dma_users, clk,
                   errorDetect, app, last>>

(* ---------------------------- specification ---------------------------- *)
InitRegs ==
    /\ ccr = [c \in Channels |-> CCR_Reset]
    /\ cndtr = [c \in Channels |-> 0]
    /\ cpar = [c \in Channels |-> 0]
    /\ cmar = [c \in Channels |-> 0]
    /\ reload = [c \in Channels |-> 0]
    /\ isr = [b \in {DMA1, DMA2} |-> 0]
    /\ dma_users = [i \in 0..1 |-> 0]
    /\ clk = [i \in 0..1 |-> FALSE]
    /\ pc = Idle
    /\ tick = U32(0)
    /\ last = Call("none", 0, XPD_OK)

\* callback slots the application registered on its handles
Handles(cbs) == [c \in Channels |-> Handle0(cbs)]

\* The application drives transfers on one channel, the last channel of
\* DMA2 (a nonzero controller index, channel number and flag offset), with
\* all three callbacks registered, in either build configuration.
Init ==
    /\ InitRegs
    /\ errorDetect \in BOOLEAN
    /\ app = {ChannelAddr(2, NumChannels)}
    /\ hdma = Handles(Slots)

Next ==
    \/ \E h \in app, cfg \in Configs : XPD_DMA_Init(h, cfg)
    \/ \E h \in app : XPD_DMA_Deinit(h)
    \/ \E h \in app : XPD_DMA_Enable(h)
    \/ \E h \in app : XPD_DMA_Disable(h)
    \/ \E h \in app, pa \in 0..MaxAddr, len \in 0..MaxLen, buf \in 0..MaxBuf :
         XPD_DMA_Start(h, pa, len, buf)
    \/ \E h \in app, pa \in 0..MaxAddr, len \in 0..MaxLen, buf \in 0..MaxBuf :
         XPD_DMA_Start_IT(h, pa, len, buf)
    \/ \E h \in app : XPD_DMA_Stop(h)
    \/ \E h \in app : StopPoll(h)
    \/ \E h \in app : XPD_DMA_Stop_IT(h)
    \/ \E h \in app : XPD_DMA_GetStatus(h)
    \/ \E h \in app : XPD_DMA_GetError(h)
    \/ \E h \in app, o \in Operations, t \in PollTimeouts :
         XPD_DMA_PollStatus(h, o, t)
    \/ \E h \in app : PollIter(h)
    \/ \E h \in app : XPD_DMA_IRQHandler(h)
    \/ \E c \in Channels : HwTransfer(c)
    \/ \E c \in Channels : HwError(c)
    \/ Tick

Spec == Init /\ [][Next]_vars

(* Channel life cycle on any one channel of either controller: the        *)
(* operations that decide what GetStatus returns.                          *)
InitLife ==
    /\ InitRegs
    /\ errorDetect \in BOOLEAN
    /\ app \in { {c} : c \in Channels }
    /\ hdma = Handles(Slots)

NextLife ==
    \/ \E h \in app, cfg \in Configs : XPD_DMA_Init(h, cfg)
    \/ \E h \in app : XPD_DMA_Deinit(h)
    \/ \E h \in app : XPD_DMA_Enable(h)
    \/ \E h \in app : XPD_DMA_Disable(h)
    \/ \E h \in app, pa \in 0..MaxAddr, len \in 0..MaxLen, buf \in 0..MaxBuf :
         XPD_DMA_Start(h, pa, len, buf)
    \/ \E h \in app, pa \in 0..MaxAddr, len \in 0..MaxLen, buf \in 0..MaxBuf :
         XPD_DMA_Start_IT(h, pa, len, buf)
    \/ \E h \in app : XPD_DMA_Stop(h)
    \/ \E h \in app : StopPoll(h)
    \/ \E h \in app : XPD_DMA_Stop_IT(h)
    \/ \E h \in app : XPD_DMA_GetStatus(h)
    \/ \E c \in Channels : HwTransfer(c)
    \/ Tick

SpecLife == InitLife /\ [][NextLife]_vars

(* The clock gate registry: Init and Deinit in any order on every channel  *)
(* of both controllers.                                                    *)
InitClock ==
    /\ InitRegs
    /\ errorDetect \in BOOLEAN
    /\ app = Channels
    /\ hdma = Handles(Slots)

NextClock ==
    \/ \E h \in app, cfg \in Configs : XPD_DMA_Init(h, cfg)
    \/ \E h \in app : XPD_DMA_Deinit(h)

SpecClock == InitClock /\ [][NextClock]_vars

(* Interrupt dispatch on one channel, for every set of registered          *)
(* callbacks and both build configurations.                                *)
InitIrq ==
    /\ InitRegs
    /\ errorDetect \in BOOLEAN
    /\ app = {ChannelAddr(2, NumChannels)}
    /\ \E cbs \in SUBSET Slots : hdma = Handles(cbs)

NextIrq ==
    \/ \E h \in app, cfg \in Configs : XPD_DMA_Init(h, cfg)
    \/ \E h \in app, pa \in 0..MaxAddr, len \in 0..MaxLen, buf \in 0..MaxBuf :
         XPD_DMA_Start_IT(h, pa, len, buf)
    \/ \E h \in app : XPD_DMA_Stop_IT(h)
    \/ \E h \in app : XPD_DMA_IRQHandler(h)
    \/ \E c \in Channels : HwTransfer(c)
    \/ \E c \in Channels : HwError(c)

SpecIrq == InitIrq /\ [][NextIrq]_vars

(* Stop and what can interleave with its wait.  The tick source keeps      *)
(* advancing and the polling loop keeps polling.                           *)
StopPollAny == \E h \in app : StopPoll(h)

NextStop ==
    \/ \E h \in app, cfg \in Configs : XPD_DMA_Init(h, cfg)
    \/ \E h \in app : XPD_DMA_Enable(h)
    \/ \E h \in app : XPD_DMA_Disable(h)
    \/ \E h \in app, pa \in 0..MaxAddr, len \in 0..MaxLen, buf \in 0..MaxBuf :
         XPD_DMA_Start(h, pa, len, buf)
    \/ \E h \in app : XPD_DMA_Stop(h)
    \/ StopPollAny
    \/ \E c \in Channels : HwTransfer(c)
    \/ Tick

SpecStop == Init /\ [][NextStop]_vars /\ SF_vars(Tick) /\ WF_vars(StopPollAny)

(* PollStatus on one channel, for start ticks at and just below the 32-bit  *)
(* wrap and for bounds of zero, two tick steps and none.  The tick source   *)
(* keeps advancing and the polling loop keeps going round.                  *)
WaitTimeouts == {U32(0), U32(2 * TickStep), XPD_NO_TIMEOUT}

WaitStartTicks ==
    {U32(0), Sub32(U32(0), U32(TickStep)), Sub32(U32(0), U32(1))}

PollIterAny == \E h \in app : PollIter(h)

NextPoll ==
    \/ \E h \in app, cfg \in Configs : XPD_DMA_Init(h, cfg)
    \/ \E h \in app, pa \in 0..MaxAddr, len \in 0..MaxLen, buf \in 0..MaxBuf :
         XPD_DMA_Start(h, pa, len, buf)
    \/ \E h \in app, o \in Operations, t \in WaitTimeouts, s \in WaitStartTicks :
         PollEntry(h, o, t, s)
    \/ PollIterAny
    \/ \E h \in app : XPD_DMA_IRQHandler(h)
    \/ \E c \in Channels : HwTransfer(c)
    \/ \E c \in Channels : HwError(c)
    \/ Tick

SpecPoll == Init /\ [][NextPoll]_vars /\ SF_vars(Tick) /\ WF_vars(PollIterAny)

(* Deinit on two channels that share a controller, each in any state a     *)
(* transfer can leave it in.  The application starts transfers only on     *)
(* handles it has initialised.                                             *)
InitShared ==
    /\ InitRegs
    /\ errorDetect = TRUE
    /\ app = {ChannelAddr(2, 1), ChannelAddr(2, NumChannels)}
    /\ hdma = Handles(Slots)

NextShared ==
    \/ \E h \in app, cfg \in Configs : XPD_DMA_Init(h, cfg)
    \/ \E h \in app : XPD_DMA_Deinit(h)
    \/ \E h \in app :
         Ready(h) /\ XPD_DMA_Start(h, MaxAddr, MaxLen, MaxBuf)
    \/ \E c \in Channels : HwTransfer(c)
    \/ \E c \in Channels : HwError(c)

SpecShared == InitShared /\ [][NextShared]_vars

(* Every operation of the driver on any one channel of either controller,  *)
(* with one transfer descriptor and one polling bound.                     *)
InitAddr ==
    /\ InitRegs
    /\ errorDetect = TRUE
    /\ app \in { {c} : c \in Channels }
    /\ hdma = Handles(Slots)

NextAddr ==
    \/ \E h \in app, cfg \in Configs : XPD_DMA_Init(h, cfg)
    \/ \E h \in app : XPD_DMA_Deinit(h)
    \/ \E h \in app : XPD_DMA_Enable(h)
    \/ \E h \in app : XPD_DMA_Disable(h)
    \/ \E h \in app : XPD_DMA_Start(h, MaxAddr, MaxLen, MaxBuf)
    \/ \E h \in app : XPD_DMA_Start_IT(h, MaxAddr, MaxLen, MaxBuf)
    \/ \E h \in app : XPD_DMA_Stop(h)
    \/ \E h \in app : StopPoll(h)
    \/ \E h \in app : XPD_DMA_Stop_IT(h)
    \/ \E h \in app : XPD_DMA_GetStatus(h)
    \/ \E h \in app : XPD_DMA_GetError(h)
    \/ \E h \in app, o \in Operations : XPD_DMA_PollStatus(h, o, U32(0))
    \/ \E h \in app : PollIter(h)
    \/ \E h \in app : XPD_DMA_IRQHandler(h)
    \/ \E c \in Channels : HwTransfer(c)
    \/ \E c \in Channels : HwError(c)
    \/ Tick

SpecAddr == InitAddr /\ [][NextAddr]_vars

(* ---------------- interrupt-driven transfer, step by step -------------- *)
\* Start_IT as its two statements, the call of Start (line 221) and the
\* SET_BIT of the interrupt-enable bits (lines 223-231), with the hardware
\* and the interrupt free to act between them; after Start_IT returned OK
\* the application watches the transfer and calls no other operation on
\* the channel until it gives the transfer up.  The interrupt controller
\* enters the handler only while a flag and its enable bit are both set,
\* and the hardware completes its transfers without a bus error.
MaxCompletes == 2

Watch(op, h, busy, n) == [op |-> op, h |-> h, busy |-> busy, completes |-> n]

Watching(h) == pc.op \in {"setie", "transfer"} /\ pc.h = h

StartIT_Arm(h, pa, len, buf) ==
    LET result == StartResult(h, pa)
        busy == GetStatus(h) = XPD_BUSY
    IN
    /\ pc = Idle
    /\ StartEffect(h, pa, len, buf, result, {})
    /\ IF result = XPD_OK
       THEN pc' = Watch("setie", h, busy, 0) /\ last' = last
       ELSE pc' = pc /\ last' = Ret("Start_IT", h, result, busy, {}, <<>>)
    /\ UNCHANGED <<isr, dma_users, clk, errorDetect, app, tick>>

StartIT_SetIE(h) ==
    /\ pc.op = "setie" /\ pc.h = h
    /\ ccr' = [ccr EXCEPT ![h] = WithBits(@, ITBits, 1)]
    /\ pc' = [pc EXCEPT !.op = "transfer"]
    /\ last' = Ret("Start_IT", h, XPD_OK, pc.busy, {}, <<>>)
    /\ UNCHANGED <<cndtr, cpar, cmar, reload, isr, hdma, dma_users, clk,
                   errorDetect, app, tick>>

\* interrupt-enable bit of each flag
EnableBit(f) == CASE f = "HT" -> "HTIE" [] f = "TC" -> "TCIE" [] f = "TE" -> "TEIE"

\* the channel's interrupt line is asserted
IrqPending(h) ==
    Ready(h) /\ \E f \in Flags : GetFlag(h, f) /\ ccr[h][EnableBit(f)] = 1

\* the interrupt is delivered: the handler runs, and a watched transfer
\* counts the complete callbacks invoked
Dispatch(h) ==
    /\ IrqPending(h)
    /\ IrqDispatch(h)
    /\ pc' = IF Watching(h) /\ "TC" \in IrqHandled(h)
                 /\ "Complete" \in hdma[h].Callbacks
                 /\ pc.completes < MaxCompletes
             THEN [pc EXCEPT !.completes = @ + 1] ELSE pc

\* the application stops watching the transfer
GiveUp(h) ==
    /\ pc.op = "transfer" /\ pc.h = h
    /\ pc' = Idle
    /\ UNCHANGED <<ccr, cndtr, cpar, cmar, reload, isr, hdma, dma_users, clk,
                   errorDetect, app, tick, last>>

NextDone ==
    \/ \E h \in app, cfg \in Configs : XPD_DMA_Init(h, cfg)
    \/ \E h \in app, pa \in 0..MaxAddr, len \in 0..MaxLen, buf \in 0..MaxBuf :
         XPD_DMA_Start(h, pa, len, buf)
    \/ \E h \in app, pa \in 0..MaxAddr, len \in 0..MaxLen, buf \in 0..MaxBuf :
         StartIT_Arm(h, pa, len, buf)
    \/ \E h \in app : StartIT_SetIE(h)
    \/ \E h \in app : XPD_DMA_Stop_IT(h)
    \/ \E h \in app, o \in Operations : XPD_DMA_PollStatus(h, o, U32(0))
    \/ \E h \in app : PollIter(h)
    \/ \E h \in app : Dispatch(h)
    \/ \E h \in app : GiveUp(h)
    \/ \E c \in Channels : HwTransfer(c)
    \/ Tick

\* Start_IT runs on to its SET_BIT, the hardware keeps transferring while
\* the channel runs, and a pending interrupt is delivered
SpecDone ==
    /\ Init
    /\ [][NextDone]_vars
    /\ \A h \in Channels : /\ WF_vars(StartIT_SetIE(h))
                            /\ WF_vars(HwTransfer(h))
                            /\ WF_vars(Dispatch(h))

(* ------------------ Start, statement by statement --------------------- *)
(* Two callers run XPD_DMA_Start on the same channel at the same time, one *)
(* statement per step; the second caller comes through XPD_DMA_Start_IT.   *)
(* pc holds the position of each caller and the owner of the critical      *)
(* section.  The hardware does not move data while the two calls race.     *)
Callers == 1..2

\* the channel as a caller finds it when it enters the critical section
Snapshot(h) ==
    [ccr |-> ccr[h], cndtr |-> cndtr[h], cpar |-> cpar[h], cmar |-> cmar[h],
     errors |-> hdma[h].Errors]

Caller0(pa, len, buf, it) ==
    [at |-> "enter", pa |-> pa, len |-> len, buf |-> buf, it |-> it,
     result |-> XPD_OK, enters |-> 0, exits |-> 0,
     snap |-> [ccr |-> CCR_Reset, cndtr |-> 0, cpar |-> 0, cmar |-> 0,
               errors |-> DMA_ERROR_NONE]]

\* both callers call Start: caller 1 with the largest length and buffer,
\* caller 2 with length 1 and buffer 0, each with any peripheral address
StartRace(h, pa1, pa2) ==
    /\ pc = Idle
    /\ Ready(h)
    /\ pc' = [op |-> "start", h |-> h, lock |-> 0,
              idle |-> (GetStatus(h) = XPD_OK),
              c |-> [i \in Callers |->
                       IF i = 1 THEN Caller0(pa1, MaxLen, MaxBuf, FALSE)
                                ELSE Caller0(pa2, 1, 0, TRUE)]]
    /\ last' = Call("Start", h, "pending")
    /\ UNCHANGED <<ccr, cndtr, cpar, cmar, reload, isr, hdma, dma_users, clk,
                   errorDetect, app, tick>>

\* XPD_ENTER_CRITICAL held by another context keeps `who` from running
\* (who = 0 is the interrupt dispatch)
CanRun_NoLock(who) == TRUE

CanRun(who) == pc.op = "start" => pc.lock \in {0, who}

\* where Start goes after the busy check
AfterCheck_EarlyReturn(result) ==
    IF result = XPD_OK THEN "disable" ELSE "done"

AfterCheck(result) == IF result = XPD_OK THEN "disable" ELSE "exit"

\* the statement after `at` on the OK path
Following(at) ==
    CASE at = "disable" -> "cpar"
      [] at = "cpar" -> "cndtr"
      [] at = "cndtr" -> "cmar"
      [] at = "cmar" -> "errors"
      [] at = "errors" -> "enable"
      [] at = "enable" -> "exit"

\* one statement of caller i
StartStep(i) ==
    LET h == pc.h
        me == pc.c[i]
        Go(f) == pc' = [pc EXCEPT !.c[i] = f]
    IN
    /\ pc.op = "start"
    /\ me.at # "done"
    /\ CanRun(i)
    /\ CASE me.at = "enter" ->
              /\ pc' = [pc EXCEPT !.lock = i,
                                  !.c[i] = [me EXCEPT !.at = "check",
                                                      !.enters = @ + 1,
                                                      !.snap = Snapshot(h)]]
              /\ UNCHANGED <<ccr, cndtr, cpar, cmar, reload, hdma>>
         [] me.at = "check" ->
              /\ Go([me EXCEPT !.result = StartResult(h, me.pa),
                               !.at = AfterCheck(StartResult(h, me.pa))])
              /\ UNCHANGED <<ccr, cndtr, cpar, cmar, reload, hdma>>
         [] me.at = "disable" ->
              /\ ccr' = [ccr EXCEPT ![h].EN = 0]
              /\ Go([me EXCEPT !.at = Following(me.at)])
              /\ UNCHANGED <<cndtr, cpar, cmar, reload, hdma>>
         [] me.at = "cpar" ->
              /\ cpar' = [cpar EXCEPT ![h] = me.pa]
              /\ Go([me EXCEPT !.at = Following(me.at)])
              /\ UNCHANGED <<ccr, cndtr, cmar, reload, hdma>>
         [] me.at = "cndtr" ->
              /\ cndtr' = [cndtr EXCEPT ![h] = me.len]
              /\ reload' = [reload EXCEPT ![h] = me.len]
              /\ Go([me EXCEPT !.at = Following(me.at)])
              /\ UNCHANGED <<ccr, cpar, cmar, hdma>>
         [] me.at = "cmar" ->
              /\ cmar' = [cmar EXCEPT ![h] = me.buf]
              /\ Go([me EXCEPT !.at = Following(me.at)])
              /\ UNCHANGED <<ccr, cndtr, cpar, reload, hdma>>
         [] me.at = "errors" ->
              /\ hdma' = [hdma EXCEPT ![h].Errors = StartErrors(h, XPD_OK)]
              /\ Go([me EXCEPT !.at = Following(me.at)])
              /\ UNCHANGED <<ccr, cndtr, cpar, cmar, reload>>
         [] me.at = "enable" ->
              /\ ccr' = [ccr EXCEPT ![h] = StartEnable(@)]
              /\ Go([me EXCEPT !.at = Following(me.at)])
              /\ UNCHANGED <<cndtr, cpar, cmar, reload, hdma>>
         [] me.at = "exit" ->
              /\ pc' = [pc EXCEPT !.lock = IF @ = i THEN 0 ELSE @,
                                  !.c[i] = [me EXCEPT
                                     !.exits = @ + 1,
                                     !.at = IF me.it /\ me.result = XPD_OK
                                            THEN "setie" ELSE "done"]]
              /\ UNCHANGED <<ccr, cndtr, cpar, cmar, reload, hdma>>
         [] me.at = "setie" ->
              /\ ccr' = [ccr EXCEPT ![h] = WithBits(@, ITBits, 1)]
              /\ Go([me EXCEPT !.at = "done"])
              /\ UNCHANGED <<cndtr, cpar, cmar, reload, hdma>>
    /\ UNCHANGED <<isr, dma_users, clk, errorDetect, app, tick, last>>

\* both calls have returned
StartRaceEnd ==
    /\ pc.op = "start"
    /\ \A i \in Callers : pc.c[i].at = "done"
    /\ pc' = Idle
    /\ last' = Ret("Start", pc.h, <<pc.c[1].result, pc.c[2].result>>,
                   ~pc.idle, {}, <<>>)
    /\ UNCHANGED <<ccr, cndtr, cpar, cmar, reload, isr, hdma, dma_users, clk,
                   errorDetect, app, tick>>

NextRace ==
    \/ \E h \in app, cfg \in Configs : XPD_DMA_Init(h, cfg)
    \/ \E h \in app, pa1 \in 0..MaxAddr, pa2 \in 0..MaxAddr :
         StartRace(h, pa1, pa2)
    \/ \E i \in Callers : StartStep(i)
    \/ StartRaceEnd
    \/ \E h \in app : XPD_DMA_Stop_IT(h)
    \/ \E h \in app : CanRun(0) /\ XPD_DMA_IRQHandler(h)
    \/ \E c \in Channels : pc = Idle /\ HwTransfer(c)
    \/ \E c \in Channels : HwError(c)

SpecRace == Init /\ [][NextRace]_vars

(* ----------------------------- properties ------------------------------ *)
\* the hardware's status flag f of channel c, read from its controller
HwFlag(c, f) == Bit(isr[DMA_BASE(c)], FlagBit(f) + 4 * DMA_CHANNEL_NUMBER(c)) = 1

\* C1: a Start with a peripheral address different from the one latched in
\* CPAR, on a busy channel (EN set and CNDTR nonzero), returns BUSY and
\* leaves EN, CPAR, CNDTR, CMAR, the interrupt-enable bits and the handle's
\* accumulated errors unchanged.
C1_StartBusyRejected ==
    [][\A h \in app, pa \in 0..MaxAddr, len \in 0..MaxLen, buf \in 0..MaxBuf :
          (/\ last'.op = "Start"
           /\ pa # cpar[h]
           /\ ccr[h].EN = 1
           /\ cndtr[h] # 0
           /\ XPD_DMA_Start(h, pa, len, buf))
          => /\ last'.code = XPD_BUSY
             /\ ccr'[h] = ccr[h]
             /\ cpar'[h] = cpar[h]
             /\ cndtr'[h] = cndtr[h]
             /\ cmar'[h] = cmar[h]
             /\ hdma'[h].Errors = hdma[h].Errors]_vars

C1_Witness ==
    /\ last.op = "Start" /\ last.code = XPD_BUSY
    /\ ccr[last.h].EN = 1 /\ cndtr[last.h] # 0
    /\ hdma[last.h].Errors = DMA_ERROR_TRANSFER

\* C2: a Start with the peripheral address already latched in CPAR returns
\* OK in every state, busy included; afterwards CPAR, CNDTR and CMAR hold
\* the new descriptor, the accumulated errors are NONE and EN is set.
C2_StartSameAddressAccepted ==
    [][\A h \in app, pa \in 0..MaxAddr, len \in 0..MaxLen, buf \in 0..MaxBuf :
          (/\ last'.op = "Start"
           /\ pa = cpar[h]
           /\ XPD_DMA_Start(h, pa, len, buf))
          => /\ last'.code = XPD_OK
             /\ cpar'[h] = pa
             /\ cndtr'[h] = len
             /\ cmar'[h] = buf
             /\ hdma'[h].Errors = DMA_ERROR_NONE
             /\ ccr'[h].EN = 1]_vars

C2_Witness ==
    /\ last.op = "Start" /\ last.code = XPD_OK /\ last.busy
    /\ ccr[last.h].EN = 1
    /\ hdma[last.h].Errors = DMA_ERROR_NONE

\* the step is an operation on h that calls XPD_DMA_Disable
DisablingStep(h) ==
    \/ XPD_DMA_Disable(h)
    \/ XPD_DMA_Stop(h)
    \/ XPD_DMA_Stop_IT(h)
    \/ XPD_DMA_Deinit(h)

\* the step is a Start or Start_IT on h that returns OK
StartOkStep(h) ==
    /\ pc = Idle
    /\ last'.op \in {"Start", "Start_IT"}
    /\ last'.code = XPD_OK
    /\ \E pa \in 0..MaxAddr, len \in 0..MaxLen, buf \in 0..MaxBuf :
          XPD_DMA_Start(h, pa, len, buf) \/ XPD_DMA_Start_IT(h, pa, len, buf)

\* the step is a Start or Start_IT on h that returns OK, or an Enable
ArmingStep(h) == XPD_DMA_Enable(h) \/ StartOkStep(h)

\* C3: after a Start that returns OK, GetStatus is BUSY until CNDTR reaches
\* zero or Stop/Disable is called; from then on it is OK until the next
\* Start or Enable.  Step by step: a successful Start of a nonzero length
\* leaves the channel BUSY; BUSY only turns into OK on a step that brings
\* CNDTR to zero or calls Disable; a zero CNDTR and a Disable-calling step
\* both give OK; OK only turns into BUSY on a Start or an Enable.
C3_BusyWhileTransferring ==
    [][\A h \in app :
          /\ (/\ pc = Idle
              /\ last'.op \in {"Start", "Start_IT"}
              /\ last'.code = XPD_OK
              /\ last'.h = h
              /\ cndtr'[h] # 0
              /\ ArmingStep(h))
             => GetStatus(h)' = XPD_BUSY
          /\ (GetStatus(h) = XPD_BUSY /\ GetStatus(h)' = XPD_OK)
             => (cndtr'[h] = 0 \/ DisablingStep(h))
          /\ cndtr'[h] = 0 => GetStatus(h)' = XPD_OK
          /\ (ccr[h].EN = 1 /\ ccr'[h].EN = 0 /\ DisablingStep(h))
             => GetStatus(h)' = XPD_OK
          /\ (GetStatus(h) = XPD_OK /\ GetStatus(h)' = XPD_BUSY)
             => ArmingStep(h)]_vars

C3_Witness ==
    /\ last.op = "Start" /\ last.code = XPD_OK
    /\ ccr[last.h].EN = 1
    /\ reload[last.h] = MaxLen
    /\ cndtr[last.h] = 0
    /\ GetStatus(last.h) = XPD_OK

\* C4: for every channel and whatever state the channel was in, GetStatus
\* directly after Init returns OK.
C4_IdleAfterInit ==
    last.op = "Init" => GetStatus(last.h) = XPD_OK

C4_Witness ==
    /\ last.op = "Init" /\ last.busy
    /\ ccr[last.h].EN = 1
    /\ GetStatus(last.h) = XPD_OK

\* the registry bit of channel h in its controller's user registry
UserBit(h) == Bit(dma_users[DMA_BASE_OFFSET(h)], DMA_CHANNEL_NUMBER(h))

\* C5: under any sequence of Init and Deinit on any channels of both
\* controllers the user registry stays a valid nonnegative byte and the
\* controller clock is on exactly when its registry is nonzero; Init sets
\* and Deinit clears exactly the bit of its channel, leaving the other
\* channels' bits and the other controller's registry and clock alone.
C5_ClockFollowsRegistry ==
    /\ [](\A i \in 0..1 : /\ dma_users[i] \in 0..255
                          /\ clk[i] <=> dma_users[i] # 0)
    /\ [][\A h \in app :
             LET bo == DMA_BASE_OFFSET(h)
                 Others == /\ \A g \in Channels \ {h} : UserBit(g)' = UserBit(g)
                           /\ dma_users'[1 - bo] = dma_users[1 - bo]
                           /\ clk'[1 - bo] = clk[1 - bo]
             IN  /\ (\E cfg \in Configs : XPD_DMA_Init(h, cfg))
                    => (UserBit(h)' = 1 /\ Others)
                 /\ XPD_DMA_Deinit(h)
                    => (UserBit(h)' = 0 /\ Others)]_vars

C5_Witness ==
    /\ last.op = "Deinit"
    /\ UserBit(last.h) = 0
    /\ dma_users[DMA_BASE_OFFSET(last.h)] # 0
    /\ clk[DMA_BASE_OFFSET(last.h)]
    /\ dma_users[1 - DMA_BASE_OFFSET(last.h)] = 0
    /\ ~clk[1 - DMA_BASE_OFFSET(last.h)]

\* C6: in one interrupt dispatch, the interrupt-enable bit of each of HT and
\* TC whose flag is set is cleared exactly when the channel is not circular
\* (on a circular channel it is left as it was); the enable bit of a flag
\* that is not set is not changed.
C6_DispatchDisablesOneShot ==
    [][\A h \in app :
          (last'.op = "IRQ" /\ XPD_DMA_IRQHandler(h))
          => /\ ccr'[h].HTIE = IF HwFlag(h, "HT") /\ ccr[h].CIRC = 0
                               THEN 0 ELSE ccr[h].HTIE
             /\ ccr'[h].TCIE = IF HwFlag(h, "TC") /\ ccr[h].CIRC = 0
                               THEN 0 ELSE ccr[h].TCIE]_vars

C6_Witness ==
    /\ last.op = "IRQ"
    /\ last.flags = {"HT", "TC"}
    /\ ccr[last.h].CIRC = 1
    /\ ccr[last.h].HTIE = 1
    /\ ccr[last.h].TCIE = 1

\* the flags one dispatch handles: those set at entry, TE only when error
\* detection is compiled in
Pending(h) == { f \in Flags : HwFlag(h, f) /\ (f = "TE" => errorDetect) }

\* the callbacks expected from a dispatch that handles the flags in F
ExpectedCalls(h, F) ==
    SelectSeq(<<"HalfComplete", "Complete", "Error">>,
              LAMBDA s : /\ s \in hdma[h].Callbacks
                         /\ \/ s = "HalfComplete" /\ "HT" \in F
                            \/ s = "Complete" /\ "TC" \in F
                            \/ s = "Error" /\ "TE" \in F)

\* C7: one interrupt dispatch handles every pending flag independently: each
\* flag set at entry (TE when error detection is compiled in) is cleared,
\* whether or not its callback slot is registered, and the registered
\* callbacks of the set flags run once each in the order half-complete,
\* complete, error; no other flag changes; with no flag set the dispatch
\* changes no driver or register state and invokes no callback.
C7_DispatchHandlesEveryFlag ==
    [][\A h \in app :
          (last'.op = "IRQ" /\ XPD_DMA_IRQHandler(h))
          => /\ \A f \in Flags :
                   HwFlag(h, f)' = (HwFlag(h, f) /\ f \notin Pending(h))
             /\ \A g \in Channels \ {h}, f \in Flags :
                   HwFlag(g, f)' = HwFlag(g, f)
             /\ last'.calls = ExpectedCalls(h, Pending(h))
             /\ Pending(h) = {}
                => /\ last'.calls = <<>>
                   /\ UNCHANGED <<ccr, cndtr, cpar, cmar, isr, hdma,
                                  dma_users, clk>>]_vars

C7_Witness ==
    /\ last.op = "IRQ"
    /\ last.flags = {"HT", "TC", "TE"}
    /\ hdma[last.h].Callbacks = {"HalfComplete", "Error"}
    /\ last.calls = <<"HalfComplete", "Error">>
    /\ \A f \in Flags : ~HwFlag(last.h, f)

\* C8: the accumulated error bitmask only grows: once TRANSFER_ERROR is
\* recorded it stays recorded, and GetError returns it, through every
\* operation (PollStatus, interrupt dispatch, Stop, Deinit, Init, a Start
\* that returns BUSY) until a Start that returns OK resets it to NONE.
C8_ErrorsAppendOnly ==
    [][\A h \in app :
          /\ (hdma[h].Errors = DMA_ERROR_TRANSFER
              /\ hdma'[h].Errors # DMA_ERROR_TRANSFER)
             => (StartOkStep(h) /\ hdma'[h].Errors = DMA_ERROR_NONE)
          /\ (last'.op = "GetError" /\ XPD_DMA_GetError(h))
             => last'.code = hdma[h].Errors]_vars

C8_Witness ==
    /\ last.op = "Start" /\ last.code = XPD_BUSY
    /\ hdma[last.h].Errors = DMA_ERROR_TRANSFER
    /\ ~HwFlag(last.h, "TE")

\* C9 as stated: in every operation, whenever a set TE flag is cleared or
\* the error bitmask is reset, the error shows in that operation's ERROR
\* return code or in the bitmask afterwards.
C9_NoErrorDropped ==
    [][\A h \in app :
          (\/ HwFlag(h, "TE") /\ ~HwFlag(h, "TE")'
           \/ hdma[h].Errors # DMA_ERROR_NONE /\ hdma'[h].Errors = DMA_ERROR_NONE)
          => (\/ hdma'[h].Errors = DMA_ERROR_TRANSFER
              \/ last'.code = XPD_ERROR)]_vars

\* C9, amended: PollStatus and the interrupt dispatch never drop an error:
\* whenever one of them clears a set TE flag, TRANSFER_ERROR is in the
\* bitmask afterwards, and PollStatus returns ERROR.  The only operation
\* that clears a set TE flag without recording it is Deinit, and the only
\* one that resets the bitmask is a Start that returns OK; Start itself
\* never clears a TE flag.
C9_ErrorsRecordedWhenDetected ==
    [][\A h \in app :
          /\ (HwFlag(h, "TE") /\ ~HwFlag(h, "TE")')
             => (\/ XPD_DMA_Deinit(h)
                 \/ /\ hdma'[h].Errors = DMA_ERROR_TRANSFER
                    /\ PollIter(h) => last'.code = XPD_ERROR)
          /\ (hdma[h].Errors # DMA_ERROR_NONE /\ hdma'[h].Errors = DMA_ERROR_NONE)
             => StartOkStep(h)]_vars

C9_Witness ==
    /\ last.op = "PollStatus" /\ last.code = XPD_ERROR
    /\ hdma[last.h].Errors = DMA_ERROR_TRANSFER
    /\ ~HwFlag(last.h, "TE")
    /\ ~errorDetect

\* C10: Stop always terminates.  It clears EN and then waits on EN with a
\* budget of 1000 ticks: it returns OK when EN reads back as cleared,
\* TIMEOUT when EN still reads as set after more than 1000 ticks, and keeps
\* waiting only while EN is set and the budget has not run out; on a
\* channel whose EN reads 0 at the first poll it returns OK without waiting.
C10_StopTerminates ==
    /\ (pc.op = "stop") ~> (pc.op = "idle")
    /\ [][\A h \in app :
             /\ (pc'.op = "stop" /\ XPD_DMA_Stop(h))
                => /\ ccr'[h].EN = 0
                   /\ pc'.polls = 0
                   /\ Sub32(tick', pc'.tickstart) = U32(0)
             /\ (pc.op = "stop" /\ StopPoll(h) /\ pc'.op = "idle")
                => /\ last'.op = "Stop"
                   /\ last'.code = IF ccr[h].EN = 0 THEN XPD_OK ELSE XPD_TIMEOUT
                   /\ last'.code = XPD_TIMEOUT => Gt32(Elapsed, U32(1000))
                   /\ (ccr[h].EN = 0 /\ pc.polls = 0) => ~last'.busy
             /\ (pc.op = "stop" /\ StopPoll(h) /\ pc'.op = "stop")
                => (ccr[h].EN = 1 /\ ~Gt32(Elapsed, U32(1000)))]_vars

C10_Witness ==
    /\ last.op = "Stop" /\ last.code = XPD_TIMEOUT
    /\ last.busy
    /\ ccr[last.h].EN = 1
    /\ pc.op = "idle"

\* C11: PollStatus returns OK only when it has observed the awaited flag
\* set (TC for operation TRANSFER, HT for operation HALF); on that return
\* TRANSFER has cleared both TC and HT, while HALF has cleared HT only and
\* left TC (and TE) as it was.
C11_PollOkClearsObserved ==
    [][\A h \in app :
          (pc.op = "poll" /\ PollIter(h) /\ last'.code = XPD_OK)
          => /\ pc.operation = DMA_OPERATION_TRANSFER
                => /\ HwFlag(h, "TC")
                   /\ ~HwFlag(h, "TC")'
                   /\ ~HwFlag(h, "HT")'
             /\ pc.operation = DMA_OPERATION_HALFTRANSFER
                => /\ HwFlag(h, "HT")
                   /\ ~HwFlag(h, "HT")'
                   /\ HwFlag(h, "TC")' = HwFlag(h, "TC")
                   /\ HwFlag(h, "TE")' = HwFlag(h, "TE")]_vars

C11_Witness ==
    /\ last.op = "PollStatus" /\ last.code = XPD_OK
    /\ last.flags = {"HT"}
    /\ pc.op = "idle"
    /\ HwFlag(last.h, "TC")
    /\ ~HwFlag(last.h, "HT")

\* the flag the PollStatus in progress waits for is set
AwaitedSet(h) ==
    HwFlag(h, IF pc.operation = DMA_OPERATION_TRANSFER THEN "TC" ELSE "HT")

\* C12: a PollStatus with a finite timeout always returns, given a tick
\* source that keeps advancing.  It returns TIMEOUT exactly when neither
\* the awaited flag nor the error flag is set and more than the bound has
\* elapsed, and a TIMEOUT return changes no flag, no error state and no
\* register.  With the no-timeout sentinel it never returns TIMEOUT and
\* returns only when the awaited flag or the error flag is set.
C12_PollTimeout ==
    /\ (pc.op = "poll" /\ pc.timeout # XPD_NO_TIMEOUT) ~> (pc.op = "idle")
    /\ [][\A h \in app :
             (pc.op = "poll" /\ PollIter(h))
             => /\ last'.op = "PollStatus"
                /\ last'.code = XPD_TIMEOUT
                   <=> (~AwaitedSet(h) /\ ~HwFlag(h, "TE"))
                /\ last'.code = XPD_TIMEOUT
                   => /\ pc.timeout # XPD_NO_TIMEOUT
                      /\ Gt32(U32(pc.waited), pc.timeout)
                      /\ UNCHANGED <<isr, hdma, ccr, cndtr, cpar, cmar>>
                /\ pc.timeout = XPD_NO_TIMEOUT
                   => /\ last'.code # XPD_TIMEOUT
                      /\ AwaitedSet(h) \/ HwFlag(h, "TE")]_vars

C12_Witness ==
    /\ last.op = "PollStatus" /\ last.code = XPD_TIMEOUT
    /\ last.busy
    /\ pc.op = "idle"
    /\ hdma[last.h].Errors = DMA_ERROR_NONE
    /\ ccr[last.h].EN = 1 /\ cndtr[last.h] # 0

\* C19: while PollStatus waits (awaited flag not set), the transfer-error
\* flag is looked at before the timeout: whenever TE is set the loop can
\* be left, and the iteration that sees it returns ERROR, also when the
\* bound has been exceeded as well, with TE cleared, TRANSFER_ERROR OR-ed
\* into the accumulated errors and HT and TC unchanged.
C19_PollErrorBeforeTimeout ==
    /\ [](\A h \in app :
            (pc.op = "poll" /\ pc.h = h /\ ~AwaitedSet(h) /\ HwFlag(h, "TE"))
            => ENABLED PollIter(h))
    /\ [][\A h \in app :
             (pc.op = "poll" /\ PollIter(h) /\ ~AwaitedSet(h) /\ HwFlag(h, "TE"))
             => /\ last'.op = "PollStatus" /\ last'.code = XPD_ERROR
                /\ ~HwFlag(h, "TE")'
                /\ hdma'[h].Errors = DMA_ERROR_TRANSFER
                /\ HwFlag(h, "HT")' = HwFlag(h, "HT")
                /\ HwFlag(h, "TC")' = HwFlag(h, "TC")]_vars

C19_Witness ==
    /\ last.op = "PollStatus" /\ last.code = XPD_ERROR
    /\ last.busy
    /\ pc.op = "idle"
    /\ ~HwFlag(last.h, "TE")
    /\ hdma[last.h].Errors = DMA_ERROR_TRANSFER

\* C20: the elapsed time PollStatus compares with Timeout is the 32-bit
\* modular difference of the current tick and the tick read at entry, which
\* equals the ticks that really went by for every start tick, those just
\* below the 32-bit wrap included; so a wait that sees neither flag can
\* return (TIMEOUT) exactly when strictly more than Timeout ticks have gone
\* by, and not earlier because the counter wrapped.
C20_ElapsedWrapSafe ==
    \A h \in app :
       (pc.op = "poll" /\ pc.h = h)
       => /\ Elapsed = U32(pc.waited)
          /\ (~AwaitedSet(h) /\ ~HwFlag(h, "TE") /\ pc.timeout # XPD_NO_TIMEOUT)
             => (ENABLED PollIter(h) <=> Gt32(U32(pc.waited), pc.timeout))

C20_Witness ==
    /\ pc.op = "poll"
    /\ Gt32(pc.tickstart, tick)
    /\ pc.waited = 2 * TickStep
    /\ pc.timeout = U32(2 * TickStep)
    /\ ~AwaitedSet(pc.h) /\ ~HwFlag(pc.h, "TE")
    /\ ~ENABLED PollIter(pc.h)

\* C15: Start_IT returns what Start returns in the same state.  When that
\* is OK the channel is armed with the descriptor and HTIE and TCIE are set
\* (TEIE too when error detection is compiled in, and left alone
\* otherwise); when it is BUSY no interrupt-enable bit and no other
\* register of the channel changes.
C15_StartITFollowsStart ==
    [][\A h \in app, pa \in 0..MaxAddr, len \in 0..MaxLen, buf \in 0..MaxBuf :
          (last'.op = "Start_IT" /\ XPD_DMA_Start_IT(h, pa, len, buf))
          => /\ last'.code \in {XPD_OK, XPD_BUSY}
             /\ last'.code = XPD_OK
                <=> ENABLED (XPD_DMA_Start(h, pa, len, buf) /\ last'.code = XPD_OK)
             /\ last'.code = XPD_OK
                => /\ ccr'[h] = [ccr[h] EXCEPT
                                    !.EN = 1, !.HTIE = 1, !.TCIE = 1,
                                    !.TEIE = IF errorDetect THEN 1 ELSE @]
                   /\ cpar'[h] = pa /\ cndtr'[h] = len /\ cmar'[h] = buf
             /\ last'.code = XPD_BUSY
                => /\ ccr'[h] = ccr[h]
                   /\ cpar'[h] = cpar[h]
                   /\ cndtr'[h] = cndtr[h]
                   /\ cmar'[h] = cmar[h]]_vars

C15_Witness ==
    /\ last.op = "Start_IT" /\ last.code = XPD_OK
    /\ errorDetect
    /\ ccr[last.h].EN = 1
    /\ ccr[last.h].HTIE = 1 /\ ccr[last.h].TCIE = 1 /\ ccr[last.h].TEIE = 1

\* C16: Stop_IT clears EN and every interrupt-enable bit of the channel and
\* returns in the same step, without waiting for EN to read back; it leaves
\* the pending flags, CPAR, CMAR, CNDTR, the accumulated errors and the
\* callback slots unchanged.
C16_StopITFrame ==
    [][\A h \in app :
          (last'.op = "Stop_IT" /\ XPD_DMA_Stop_IT(h))
          => /\ ccr'[h] = [ccr[h] EXCEPT
                              !.EN = 0, !.HTIE = 0, !.TCIE = 0, !.TEIE = 0]
             /\ pc' = Idle
             /\ UNCHANGED <<isr, cpar, cmar, cndtr, hdma>>]_vars

C16_Witness ==
    /\ last.op = "Stop_IT"
    /\ ccr[last.h].EN = 0
    /\ ccr[last.h].HTIE = 0 /\ ccr[last.h].TCIE = 0 /\ ccr[last.h].TEIE = 0
    /\ HwFlag(last.h, "TC")
    /\ cndtr[last.h] # 0
    /\ cpar[last.h] # 0
    /\ hdma[last.h].Errors = DMA_ERROR_TRANSFER

\* C18: in every state GetStatus returns BUSY if and only if EN is set and
\* CNDTR is nonzero, and OK otherwise, and GetError returns the accumulated
\* errors; neither changes a register, a flag, the error state or the
\* registry, so a repeated call with nothing in between returns the same.
C18_StatusIsPure ==
    [][\A h \in app :
          /\ (last'.op = "GetStatus" /\ XPD_DMA_GetStatus(h))
             => /\ last'.code = IF ccr[h].EN = 1 /\ cndtr[h] # 0
                                THEN XPD_BUSY ELSE XPD_OK
                /\ UNCHANGED <<ccr, cndtr, cpar, cmar, isr, hdma,
                               dma_users, clk, pc>>
          /\ (last'.op = "GetError" /\ XPD_DMA_GetError(h))
             => /\ last'.code = hdma[h].Errors
                /\ UNCHANGED <<ccr, cndtr, cpar, cmar, isr, hdma,
                               dma_users, clk, pc>>]_vars

C18_Witness ==
    /\ last.op = "GetStatus" /\ last.code = XPD_OK
    /\ ccr[last.h].EN = 1
    /\ cndtr[last.h] = 0
    /\ reload[last.h] # 0

\* C17: Deinit leaves the channel disabled with CCR, CNDTR, CPAR and CMAR
\* zero, its HT, TC and TE flags cleared and its bit removed from the
\* controller's registry, the bits of the other channels staying as they
\* are and the clock staying on exactly while the registry is nonzero; a
\* second Deinit right after the first changes nothing.
C17_DeinitResetsIdempotent ==
    [][\A h \in app :
          (last'.op = "Deinit" /\ XPD_DMA_Deinit(h))
          => /\ ccr'[h] = CCR_Reset
             /\ cndtr'[h] = 0 /\ cpar'[h] = 0 /\ cmar'[h] = 0
             /\ \A f \in Flags : ~HwFlag(h, f)'
             /\ UserBit(h)' = 0
             /\ \A g \in Channels \ {h} : UserBit(g)' = UserBit(g)
             /\ \A i \in 0..1 : clk'[i] <=> dma_users'[i] # 0
             /\ (last.op = "Deinit" /\ last.h = h)
                => UNCHANGED <<ccr, cndtr, cpar, cmar, isr, hdma,
                               dma_users, clk>>]_vars

C17_Witness ==
    /\ last.op = "Deinit"
    /\ ccr[last.h] = CCR_Reset
    /\ \A f \in Flags : ~HwFlag(last.h, f)
    /\ UserBit(last.h) = 0
    /\ \E g \in app \ {last.h} :
          /\ UserBit(g) = 1
          /\ clk[DMA_BASE_OFFSET(g)]
          /\ ccr[g].EN = 1
          /\ HwFlag(g, "TE")

\* caller i is between XPD_ENTER_CRITICAL and XPD_EXIT_CRITICAL
Inside(i) == pc.c[i].at \notin {"enter", "setie", "done"}

\* what an indivisible Start with caller i's arguments makes of the channel
\* that i found on entering: the result, and the channel afterwards
AtomicResult(i) ==
    LET me == pc.c[i] IN
    IF me.pa # me.snap.cpar /\ me.snap.ccr.EN = 1 /\ me.snap.cndtr # 0
    THEN XPD_BUSY ELSE XPD_OK

AtomicChannel(i) ==
    LET me == pc.c[i] IN
    IF AtomicResult(i) = XPD_OK
    THEN [ccr |-> [me.snap.ccr EXCEPT !.EN = 1], cndtr |-> me.len,
          cpar |-> me.pa, cmar |-> me.buf, errors |-> DMA_ERROR_NONE]
    ELSE me.snap

C14_CriticalSectionBalanced ==
    pc.op = "start"
    => \A i \in Callers :
          /\ pc.c[i].enters \in 0..1
          /\ pc.c[i].exits \in 0..pc.c[i].enters
          /\ (pc.lock = i) <=> (pc.c[i].enters = 1 /\ pc.c[i].exits = 0)
          /\ pc.c[i].at \in {"setie", "done"}
             => (pc.c[i].enters = 1 /\ pc.c[i].exits = 1 /\ pc.lock # i)

C14_Witness ==
    /\ pc.op = "start"
    /\ \A i \in Callers :
          pc.c[i].at = "done" /\ pc.c[i].enters = 1 /\ pc.c[i].exits = 1
    /\ pc.lock = 0
    /\ pc.c[1].result = XPD_OK
    /\ pc.c[2].result = XPD_BUSY

\* C21: for channel n of a controller, whose register block is at
\* controller base + 8 + 20 * (n - 1), the controller base is the instance
\* address with its low 8 bits masked off and the flag-field offset is
\* 4 * (n - 1), for all seven channels a controller can have; a handle
\* that has been through Init holds exactly these two values (so distinct
\* channels of a controller hold distinct offsets), and only Init changes
\* them.
C21_AddressingCached ==
    /\ [](/\ \A k \in 1..2, n \in 1..7 :
               LET inst == Bases[k] + 8 + 20 * (n - 1) IN
               /\ DMA_BASE(inst) = Bases[k]
               /\ DMA_CHANNEL_NUMBER(inst) * 4 = 4 * (n - 1)
          /\ \A k \in 1..2, n \in 1..NumChannels :
               LET hd == hdma[ChannelAddr(k, n)] IN
               \/ hd.Base = 0 /\ hd.ChannelOffset = 0
               \/ hd.Base = Bases[k] /\ hd.ChannelOffset = 4 * (n - 1)
          /\ last.op = "Init" => hdma[last.h].Base # 0)
    /\ [][\A h \in Channels :
             (\/ hdma'[h].Base # hdma[h].Base
              \/ hdma'[h].ChannelOffset # hdma[h].ChannelOffset)
             => \E cfg \in Configs : XPD_DMA_Init(h, cfg)]_vars

C21_Witness ==
    /\ last.op = "PollStatus"
    /\ last.h = ChannelAddr(1, NumChannels)
    /\ hdma[last.h].Base = DMA1
    /\ hdma[last.h].ChannelOffset = 4 * (NumChannels - 1)

\* the watched transfer is one the claim speaks of: armed by a successful
\* Start_IT with a nonzero length on an initialised non-circular channel
OneShot(h) == Watching(h) /\ Ready(h) /\ ccr[h].CIRC = 0 /\ reload[h] > 0

\* C22: on a non-circular channel, once Start_IT has armed a transfer of
\* nonzero length and set the interrupt-enable bits, the complete callback
\* is eventually invoked unless the application gives the transfer up, and
\* it is never invoked a second time for that transfer, whatever the
\* hardware did between the arming and the setting of the enable bits.
C22_CompleteExactlyOnce ==
    /\ \A h \in Channels :
         (OneShot(h) /\ pc.op = "transfer")
             ~> (~ Watching(h) \/ pc.completes >= 1)
    /\ [](\A h \in Channels : OneShot(h) => pc.completes <= 1)

\* C23: results reported after a successful Start belong to the transfer
\* that Start armed.  On a non-circular channel a PollStatus(TRANSFER) that
\* returns OK, and an interrupt dispatch that invokes the complete
\* callback, happen only when the remaining length of the armed transfer
\* is zero; and no transfer-error flag of an earlier transfer is pending
\* when Start or Start_IT returns OK, so that every error PollStatus
\* returns or the dispatch records was raised after that Start.
C23_ResultsBelongToTransfer ==
    [][\A h \in app :
          /\ (/\ last'.op = "PollStatus" /\ last'.code = XPD_OK
              /\ PollIter(h)
              /\ pc.operation = DMA_OPERATION_TRANSFER
              /\ ccr[h].CIRC = 0)
             => cndtr[h] = 0
          /\ (/\ Ready(h) /\ HwFlag(h, "TC") /\ ccr[h].CIRC = 0
              /\ "Complete" \in hdma[h].Callbacks
              /\ XPD_DMA_IRQHandler(h))
             => cndtr[h] = 0
          /\ (/\ last'.op = "Start" /\ last'.code = XPD_OK
              /\ Ready(h)
              /\ \E pa \in 0..MaxAddr, len \in 0..MaxLen, buf \in 0..MaxBuf :
                    XPD_DMA_Start(h, pa, len, buf))
             => ~ HwFlag(h, "TE")']_vars
====
